---------------------------- MODULE Spec2Model ----------------------------
(***************************************************************************)
(* A model of colortty: the colour decoders and encoders of src/color.rs,  *)
(* the Mintty parser and the TOML renderer, and the catalog provider of    *)
(* src/provider.rs (list, download_all and the on-disk cache).             *)
(*                                                                         *)
(* Text is modelled as a sequence of one-character strings.  A key name of *)
(* a Mintty line is a single symbol of that sequence: the parser only      *)
(* compares it for equality and it holds none of the separators.           *)
(***************************************************************************)
EXTENDS Integers, Sequences, FiniteSets, TLC

VARIABLES
    cInput,      \* Color: the text handed to Color::from_mintty_color
    cResult,     \* Color: its Result<Color>
    cHex,        \* Color: Color::to_hex of the decoded colour
    cPc,         \* Color: "start" | "parsed" | "hexed"
    mContent,    \* Mintty: the text handed to ColorScheme::from_minttyrc
    mResult,     \* Mintty: its Result<ColorScheme>
    mDoc,        \* Mintty: ColorScheme::to_toml of the parsed scheme
    mPc,         \* Mintty: "start" | "parsed" | "rendered"
    provider,    \* Provider: the Provider value (its four fields)
    op,          \* Provider: the method called, "list" | "download_all"
    remote,      \* Provider: what the catalog's listing endpoint answers
    cache,       \* Provider: the file system, [dir: is there a cache
                 \*   directory, files: path -> content]
    pc,          \* Provider: where the call stands
    items,       \* Provider: download_all's parsed listing
    idx,         \* Provider: download_all's position in the listing
    futures,     \* Provider: download_all's Vec of download futures
    result,      \* Provider: what the call returned
    log,         \* Provider: what an instrumented transport and file system
                 \*   record of the call (requests, writes, batches)
    gCall,       \* Gogh: the function called, "from_gogh_color" | "from_gogh"
    gInput,      \* Gogh: the text handed to it
    gResult,     \* Gogh: its Result, or Panic
    gPc,         \* Gogh: "start" | "done"
    iRoot,       \* iTerm: the Element that content.parse::<Element>() gave
    iResult,     \* iTerm: the Result<ColorScheme> of from_iterm, or Panic
    iDoc,        \* iTerm: ColorScheme::to_toml of the parsed scheme
    iPc          \* iTerm: "start" | "parsed" | "rendered"

colorVars == <<cInput, cResult, cHex, cPc>>
minttyVars == <<mContent, mResult, mDoc, mPc>>
providerVars ==
    <<provider, op, remote, cache, pc, items, idx, futures, result, log>>
goghVars == <<gCall, gInput, gResult, gPc>>
itermVars == <<iRoot, iResult, iDoc, iPc>>

-----------------------------------------------------------------------------
(* Bounds of the model *)

\* the largest number of comma-separated fields of a generated colour text
MaxFields == 4

\* the largest number of lines of a generated Mintty text (beside the
\* complete 18-key fixtures)
MaxLines == 3

\* the complete Mintty fixtures come in colourings 0..MaxVariant
MaxVariant == 5

\* a generated listing holds eligible files for up to MaxBatches batches
MaxBatches == 2

\* a generated iTerm document holds up to MaxEntries entries (a key and its
\* dict, or what stands in their place)
MaxEntries == 2

(* Program constants *)

\* download_all awaits its futures when there are more than this many
BatchLimit == 10

\* u8::MAX: the components of Color are u8
U8Max == 255

-----------------------------------------------------------------------------
(* Text helpers *)

DigitChars == <<"0", "1", "2", "3", "4", "5", "6", "7", "8", "9">>

HexChars ==
    <<"0", "1", "2", "3", "4", "5", "6", "7", "8", "9", "a", "b", "c", "d", "e", "f">>

IndexOf(c, chars) ==
    IF \E i \in DOMAIN chars : chars[i] = c
    THEN CHOOSE i \in DOMAIN chars : chars[i] = c
    ELSE 0

\* the positions of a separator in a text, with 0 in front and Len + 1 behind
Cuts(s, sep) ==
    LET at == {i \in DOMAIN s : s[i] = sep} \cup {0, Len(s) + 1}
    IN  [k \in 1..Cardinality(at) |->
            CHOOSE i \in at : Cardinality({j \in at : j < i}) = k - 1]

\* str::split(sep): the fields between the separators, empty fields kept
Split(s, sep) ==
    LET cuts == Cuts(s, sep)
    IN  [k \in 1..(Len(cuts) - 1) |-> SubSeq(s, cuts[k] + 1, cuts[k + 1] - 1)]

RECURSIVE Join(_, _)
Join(fields, sep) ==
    IF Len(fields) = 0 THEN <<>>
    ELSE IF Len(fields) = 1 THEN fields[1]
    ELSE fields[1] \o <<sep>> \o Join(Tail(fields), sep)

RECURSIVE Dec(_)
\* the decimal text of a natural number
Dec(n) == IF n < 10 THEN <<DigitChars[n + 1]>>
          ELSE Append(Dec(n \div 10), DigitChars[(n % 10) + 1])

RECURSIVE Flatten(_)
\* a character sequence as one string
Flatten(s) == IF Len(s) = 0 THEN "" ELSE s[1] \o Flatten(Tail(s))

-----------------------------------------------------------------------------
(* src/color.rs: Color *)

Ok(v) == [ok |-> TRUE, val |-> v]
Err(e) == [ok |-> FALSE, err |-> e]

RECURSIVE ParseDigits(_, _, _, _)
\* the digit loop of u8::from_str_radix: every character must be a digit of
\* the radix, and the value must stay within u8 (checked_mul, checked_add)
ParseDigits(s, i, acc, radixChars) ==
    IF i > Len(s) THEN Ok(acc)
    ELSE LET d == IndexOf(s[i], radixChars) IN
         IF d = 0 THEN Err("ParseInt")
         ELSE IF acc * Len(radixChars) + (d - 1) > U8Max THEN Err("ParseInt")
         ELSE ParseDigits(s, i + 1, acc * Len(radixChars) + (d - 1), radixChars)

\* s.parse::<u8>(): empty text fails; a lone sign fails; one leading '+' is
\* accepted and skipped; '-' is no digit of an unsigned type
parse_int(s) ==
    IF Len(s) = 0 THEN Err("ParseInt")
    ELSE IF Len(s) = 1 /\ s[1] \in {"+", "-"} THEN Err("ParseInt")
    ELSE IF s[1] = "+" THEN ParseDigits(Tail(s), 1, 0, DigitChars)
    ELSE ParseDigits(s, 1, 0, DigitChars)

\* the mutant of from_mintty_color: the field count is not checked, the first
\* three fields are decoded
from_mintty_color_nocount(s) ==
    LET rgb == Split(s, ",") IN
    IF Len(rgb) < 3 THEN Err("InvalidColorFormat")
    ELSE LET red == parse_int(rgb[1])
             green == parse_int(rgb[2])
             blue == parse_int(rgb[3])
         IN  IF ~red.ok THEN red
             ELSE IF ~green.ok THEN green
             ELSE IF ~blue.ok THEN blue
             ELSE Ok([red |-> red.val, green |-> green.val, blue |-> blue.val])

from_mintty_color(s) ==
    LET rgb == Split(s, ",") IN
    IF Len(rgb) # 3 THEN Err("InvalidColorFormat")
    ELSE LET red == parse_int(rgb[1])
             green == parse_int(rgb[2])
             blue == parse_int(rgb[3])
         IN  IF ~red.ok THEN red
             ELSE IF ~green.ok THEN green
             ELSE IF ~blue.ok THEN blue
             ELSE Ok([red |-> red.val, green |-> green.val, blue |-> blue.val])

RECURSIVE LowerHex(_)
\* {:x} of an unsigned integer: its hexadecimal digits, lowercase
LowerHex(n) == IF n < 16 THEN <<HexChars[n + 1]>>
               ELSE Append(LowerHex(n \div 16), HexChars[(n % 16) + 1])

RECURSIVE ZeroPad(_, _)
\* the 0 flag with a width: zeros are put in front up to the width
ZeroPad(digits, width) ==
    IF Len(digits) >= width THEN digits ELSE ZeroPad(<<"0">> \o digits, width)

\* the mutant of to_hex: {:x} without the zero-padded width
to_hex_nopad(c) ==
    <<"0", "x">> \o LowerHex(c.red) \o LowerHex(c.green) \o LowerHex(c.blue)

\* format!("0x{:>02x}{:>02x}{:>02x}", red, green, blue)
to_hex(c) ==
    <<"0", "x">> \o ZeroPad(LowerHex(c.red), 2) \o ZeroPad(LowerHex(c.green), 2)
                 \o ZeroPad(LowerHex(c.blue), 2)

DefaultColor == [red |-> 0, green |-> 0, blue |-> 0]


-----------------------------------------------------------------------------
(* src/color.rs: ColorScheme *)

None == [some |-> FALSE]
Some(v) == [some |-> TRUE, val |-> v]

\* ColorScheme::default(): every colour black, no cursor colours
DefaultScheme ==
    [foreground |-> DefaultColor, background |-> DefaultColor,
     cursor_text |-> None, cursor |-> None,
     black |-> DefaultColor, red |-> DefaultColor, green |-> DefaultColor,
     yellow |-> DefaultColor, blue |-> DefaultColor, magenta |-> DefaultColor,
     cyan |-> DefaultColor, white |-> DefaultColor,
     bright_black |-> DefaultColor, bright_red |-> DefaultColor,
     bright_green |-> DefaultColor, bright_yellow |-> DefaultColor,
     bright_blue |-> DefaultColor, bright_magenta |-> DefaultColor,
     bright_cyan |-> DefaultColor, bright_white |-> DefaultColor]

\* str::lines(): the text split at "\n", a final empty piece dropped, and one
\* "\r" at the end of a line removed
LinesOf(content) ==
    LET pieces == Split(content, "\n")
        kept == IF pieces[Len(pieces)] = <<>>
                THEN SubSeq(pieces, 1, Len(pieces) - 1) ELSE pieces
        Strip(l) == IF Len(l) > 0 /\ l[Len(l)] = "\r"
                    THEN SubSeq(l, 1, Len(l) - 1) ELSE l
    IN  [i \in 1..Len(kept) |-> Strip(kept[i])]

\* the arms of the match on the key name in from_minttyrc, in source order
MinttyArms ==
    << <<"ForegroundColour", "foreground">>, <<"BackgroundColour", "background">>,
       <<"Black", "black">>, <<"Red", "red">>, <<"Green", "green">>,
       <<"Yellow", "yellow">>, <<"Blue", "blue">>, <<"Magenta", "magenta">>,
       <<"Cyan", "cyan">>, <<"White", "white">>,
       <<"BoldRed", "bright_red">>, <<"BoldBlack", "bright_black">>,
       <<"BoldGreen", "bright_green">>, <<"BoldYellow", "bright_yellow">>,
       <<"BoldBlue", "bright_blue">>, <<"BoldMagenta", "bright_magenta">>,
       <<"BoldCyan", "bright_cyan">>, <<"BoldWhite", "bright_white">> >>

\* the mutant of MinttySlot: the arms of BoldRed and BoldBlack assign each
\* other's slot
MinttySlot_swapped(name) ==
    IF name = <<"BoldRed">> THEN "bright_black"
    ELSE IF name = <<"BoldBlack">> THEN "bright_red"
    ELSE IF \E i \in DOMAIN MinttyArms : name = <<MinttyArms[i][1]>>
    THEN MinttyArms[CHOOSE i \in DOMAIN MinttyArms : name = <<MinttyArms[i][1]>>][2]
    ELSE "_"

\* the slot the match assigns for a key name, "_" for the default arm
MinttySlot(name) ==
    IF \E i \in DOMAIN MinttyArms : name = <<MinttyArms[i][1]>>
    THEN MinttyArms[CHOOSE i \in DOMAIN MinttyArms : name = <<MinttyArms[i][1]>>][2]
    ELSE "_"

RECURSIVE MinttyLoop_reversed(_, _, _)
\* the mutant of MinttyLoop: the lines are taken from the last to the first,
\* so that the first line of a key is the one whose colour stays
MinttyLoop_reversed(lines, i, scheme) ==
    IF i > Len(lines) THEN Ok(scheme)
    ELSE LET components == Split(lines[Len(lines) + 1 - i], "=") IN
         IF Len(components) # 2 THEN Err("InvalidLineFormat")
         ELSE LET name == components[1]
                  color == from_mintty_color(components[2])
              IN  IF ~color.ok THEN color
                  ELSE IF MinttySlot(name) = "_" THEN Err("UnknownColorName")
                  ELSE MinttyLoop_reversed(lines, i + 1,
                                  [scheme EXCEPT ![MinttySlot(name)] = color.val])

RECURSIVE MinttyLoop(_, _, _)
\* the loop of from_minttyrc over the lines from the i-th on
MinttyLoop(lines, i, scheme) ==
    IF i > Len(lines) THEN Ok(scheme)
    ELSE LET components == Split(lines[i], "=") IN
         IF Len(components) # 2 THEN Err("InvalidLineFormat")
         ELSE LET name == components[1]
                  color == from_mintty_color(components[2])
              IN  IF ~color.ok THEN color
                  ELSE IF MinttySlot(name) = "_" THEN Err("UnknownColorName")
                  ELSE MinttyLoop(lines, i + 1,
                                  [scheme EXCEPT ![MinttySlot(name)] = color.val])

from_minttyrc(content) == MinttyLoop(LinesOf(content), 1, DefaultScheme)

Hex(c) == Flatten(to_hex(c))

\* the cursor block of to_toml: present when both cursor colours are
cursor_colors(scheme) ==
    IF scheme.cursor_text.some /\ scheme.cursor.some
    THEN << "\n", "# Cursor colors", "\n", "[colors.cursor]", "\n",
            "text =   '", Hex(scheme.cursor_text.val), "'", "\n",
            "cursor = '", Hex(scheme.cursor.val), "'", "\n" >>
    ELSE <<>>

\* ColorScheme::to_toml: the pieces of its format string and the arguments put
\* between them, in order; "\n" is a piece of its own
to_toml(scheme) ==
    << "\n", "# Default colors", "\n", "[colors.primary]", "\n",
       "background = '", Hex(scheme.background), "'", "\n",
       "foreground = '", Hex(scheme.foreground), "'", "\n" >>
    \o cursor_colors(scheme) \o
    << "\n", "# Normal colors", "\n", "[colors.normal]", "\n",
       "black =   '", Hex(scheme.black), "'", "\n",
       "red =     '", Hex(scheme.red), "'", "\n",
       "green =   '", Hex(scheme.green), "'", "\n",
       "yellow =  '", Hex(scheme.yellow), "'", "\n",
       "blue =    '", Hex(scheme.blue), "'", "\n",
       "magenta = '", Hex(scheme.magenta), "'", "\n",
       "cyan =    '", Hex(scheme.cyan), "'", "\n",
       "white =   '", Hex(scheme.white), "'", "\n",
       "\n", "# Bright colors", "\n", "[colors.bright]", "\n",
       "black =   '", Hex(scheme.bright_black), "'", "\n",
       "red =     '", Hex(scheme.bright_red), "'", "\n",
       "green =   '", Hex(scheme.bright_green), "'", "\n",
       "yellow =  '", Hex(scheme.bright_yellow), "'", "\n",
       "blue =    '", Hex(scheme.bright_blue), "'", "\n",
       "magenta = '", Hex(scheme.bright_magenta), "'", "\n",
       "cyan =    '", Hex(scheme.bright_cyan), "'", "\n",
       "white =   '", Hex(scheme.bright_white), "'", "\n" >>

-----------------------------------------------------------------------------
(* src/color.rs: the Gogh decoders *)

\* a panic of the called function: no Result is returned
Panic == [ok |-> FALSE, panic |-> TRUE]

HexUpper ==
    <<"0", "1", "2", "3", "4", "5", "6", "7", "8", "9", "A", "B", "C", "D", "E", "F">>

\* char::to_digit(16) + 1, 0 when the character is no hexadecimal digit
HexDigit(c) ==
    IF IndexOf(c, HexChars) # 0 THEN IndexOf(c, HexChars) ELSE IndexOf(c, HexUpper)

RECURSIVE ParseHexDigits(_, _, _)
\* the digit loop of u8::from_str_radix(s, 16)
ParseHexDigits(s, i, acc) ==
    IF i > Len(s) THEN Ok(acc)
    ELSE LET d == HexDigit(s[i]) IN
         IF d = 0 THEN Err("ParseInt")
         ELSE IF acc * 16 + (d - 1) > U8Max THEN Err("ParseInt")
         ELSE ParseHexDigits(s, i + 1, acc * 16 + (d - 1))

\* u8::from_str_radix(s, 16): empty text and a lone sign fail, one leading
\* '+' is accepted and skipped, digits of either case are accepted
parse_hex(s) ==
    IF Len(s) = 0 THEN Err("ParseInt")
    ELSE IF Len(s) = 1 /\ s[1] \in {"+", "-"} THEN Err("ParseInt")
    ELSE IF s[1] = "+" THEN ParseHexDigits(Tail(s), 1, 0)
    ELSE ParseHexDigits(s, 1, 0)

\* &s[from..to] of a text of one-byte characters: the characters from + 1 to
\* to, a panic when to is beyond the end of the text
Slice(s, from, to) == IF to > Len(s) THEN Panic ELSE Ok(SubSeq(s, from + 1, to))

\* Color::from_gogh_color: each pair is sliced and then parsed, in turn
from_gogh_color(s) ==
    LET r == Slice(s, 1, 3) IN
    IF r = Panic THEN Panic
    ELSE LET red == parse_hex(r.val) IN
    IF ~red.ok THEN red
    ELSE LET g == Slice(s, 3, 5) IN
    IF g = Panic THEN Panic
    ELSE LET green == parse_hex(g.val) IN
    IF ~green.ok THEN green
    ELSE LET b == Slice(s, 5, 7) IN
    IF b = Panic THEN Panic
    ELSE LET blue == parse_hex(b.val) IN
    IF ~blue.ok THEN blue
    ELSE Ok([red |-> red.val, green |-> green.val, blue |-> blue.val])

UpperChars ==
    {"A", "B", "C", "D", "E", "F", "G", "H", "I", "J", "K", "L", "M", "N", "O",
     "P", "Q", "R", "S", "T", "U", "V", "W", "X", "Y", "Z"}

\* the class [A-Z0-9_]
IsNameChar(c) == c \in UpperChars \/ IndexOf(c, DigitChars) # 0 \/ c = "_"

\* the class [0-9a-fA-F]
IsHexChar(c) == HexDigit(c) # 0

ExportWord == <<"e", "x", "p", "o", "r", "t", " ">>

\* the end of the longest run of [A-Z0-9_] that starts at position p
NameEnd(line, p) ==
    LET stop == {i \in p..Len(line) : ~IsNameChar(line[i])} IN
    IF stop = {} THEN Len(line)
    ELSE (CHOOSE i \in stop : \A j \in stop : i <= j) - 1

\* the pattern export ([A-Z0-9_]+)="(#[0-9a-fA-F]{6})" matches at position p;
\* '=' is not of the name's class, so the name is the longest run
PatternAt(line, p) ==
    LET n0 == p + Len(ExportWord)
        n1 == NameEnd(line, n0)
    IN  /\ n0 - 1 <= Len(line)
        /\ SubSeq(line, p, n0 - 1) = ExportWord
        /\ n1 >= n0
        /\ n1 + 10 <= Len(line)
        /\ line[n1 + 1] = "=" /\ line[n1 + 2] = "\"" /\ line[n1 + 3] = "#"
        /\ \A k \in 4..9 : IsHexChar(line[n1 + k])
        /\ line[n1 + 10] = "\""

\* Regex::captures: the groups of the leftmost match in the line, if any
captures(line) ==
    LET at == {p \in DOMAIN line : PatternAt(line, p)} IN
    IF at = {} THEN None
    ELSE LET p == CHOOSE q \in at : \A r \in at : q <= r
             n0 == p + Len(ExportWord)
             n1 == NameEnd(line, n0)
         IN  Some([name |-> SubSeq(line, n0, n1),
                   color |-> SubSeq(line, n1 + 3, n1 + 9)])

Color_(d1, d2) == <<"C", "O", "L", "O", "R", "_", d1, d2>>

FOREGROUND_COLOR ==
    <<"F", "O", "R", "E", "G", "R", "O", "U", "N", "D", "_", "C", "O", "L", "O", "R">>

BACKGROUND_COLOR ==
    <<"B", "A", "C", "K", "G", "R", "O", "U", "N", "D", "_", "C", "O", "L", "O", "R">>

\* the arms of the match on the name in from_gogh, in source order
GoghArms ==
    << <<FOREGROUND_COLOR, "foreground">>, <<BACKGROUND_COLOR, "background">>,
       <<Color_("0", "1"), "black">>, <<Color_("0", "2"), "red">>,
       <<Color_("0", "3"), "green">>, <<Color_("0", "4"), "yellow">>,
       <<Color_("0", "5"), "blue">>, <<Color_("0", "6"), "magenta">>,
       <<Color_("0", "7"), "cyan">>, <<Color_("0", "8"), "white">>,
       <<Color_("0", "9"), "bright_black">>, <<Color_("1", "0"), "bright_red">>,
       <<Color_("1", "1"), "bright_green">>, <<Color_("1", "2"), "bright_yellow">>,
       <<Color_("1", "3"), "bright_blue">>, <<Color_("1", "4"), "bright_magenta">>,
       <<Color_("1", "5"), "bright_cyan">>, <<Color_("1", "6"), "bright_white">> >>

\* the mutant of GoghSlot: COLOR_09..COLOR_16 assign the normal slots again
GoghSlot_normal(name) ==
    IF \E i \in DOMAIN GoghArms : name = GoghArms[i][1]
    THEN LET i == CHOOSE j \in DOMAIN GoghArms : name = GoghArms[j][1]
         IN  GoghArms[IF i > 10 THEN i - 8 ELSE i][2]
    ELSE "_"

\* the slot the match assigns for a name, "_" for the default arm
GoghSlot(name) ==
    IF \E i \in DOMAIN GoghArms : name = GoghArms[i][1]
    THEN GoghArms[CHOOSE i \in DOMAIN GoghArms : name = GoghArms[i][1]][2]
    ELSE "_"

RECURSIVE GoghLoop(_, _, _)
\* the loop of from_gogh over the lines from the i-th on
GoghLoop(lines, i, scheme) ==
    IF i > Len(lines) THEN Ok(scheme)
    ELSE LET caps == captures(lines[i]) IN
         IF ~caps.some THEN GoghLoop(lines, i + 1, scheme)
         ELSE LET name == caps.val.name
                  color == from_gogh_color(caps.val.color)
              IN  IF ~color.ok THEN color
                  ELSE IF GoghSlot(name) = "_" THEN GoghLoop(lines, i + 1, scheme)
                  ELSE GoghLoop(lines, i + 1,
                                [scheme EXCEPT ![GoghSlot(name)] = color.val])

from_gogh(content) == GoghLoop(LinesOf(content), 1, DefaultScheme)

-----------------------------------------------------------------------------
(* src/color.rs: the iTerm parser *)

\* the nodes of a parsed document (xml::Xml): an element with its children, a
\* character node with its text, and a node of another kind
Elem(name, children) == [kind |-> "element", name |-> name, children |-> children]
Text(t) == [kind |-> "text", text |-> t]
CommentNode == [kind |-> "comment"]

\* the elements among a sequence of nodes, in order
ElementsOf(nodes) == SelectSeq(nodes, LAMBDA n : n.kind = "element")

\* Element::get_children(name, None): the child elements of that name
get_children(element, name) ==
    SelectSeq(element.children, LAMBDA n : n.kind = "element" /\ n.name = name)

\* extract_text: &element.children[0] panics without a child
extract_text(element) ==
    IF Len(element.children) = 0 THEN Panic
    ELSE LET first == element.children[1] IN
         IF first.kind = "text" THEN Ok(first.text) ELSE Err("NotCharacterNode")

RECURSIVE DigitsValue(_)
DigitsValue(s) ==
    IF Len(s) = 0 THEN 0
    ELSE 10 * DigitsValue(SubSeq(s, 1, Len(s) - 1)) + (IndexOf(s[Len(s)], DigitChars) - 1)

RECURSIVE Pow10(_)
Pow10(n) == IF n = 0 THEN 1 ELSE 10 * Pow10(n - 1)

\* str::parse::<f32> of a decimal text: an optional sign, digits, and an
\* optional '.' with digits on either side, one digit at least; the value is
\* num / scale, negative when neg.  (Exponents, "inf" and "NaN" are not among
\* the texts of the model.)
parse_f32(s) ==
    LET signed == Len(s) > 0 /\ s[1] \in {"+", "-"}
        body == IF signed THEN Tail(s) ELSE s
        parts == Split(body, ".")
        digits == IF Len(parts) = 2 THEN parts[1] \o parts[2] ELSE parts[1]
    IN  IF /\ Len(parts) <= 2
           /\ Len(digits) > 0
           /\ \A i \in DOMAIN digits : IndexOf(digits[i], DigitChars) # 0
        THEN Ok([neg |-> signed /\ s[1] = "-", num |-> DigitsValue(digits),
                 scale |-> IF Len(parts) = 2 THEN Pow10(Len(parts[2])) ELSE 1])
        ELSE Err("ParseFloat")

\* extract_real_color: (real_value * 255.0) as u8, a cast that truncates and
\* saturates at 0 and 255
extract_real_color(element) ==
    LET text == extract_text(element) IN
    IF ~text.ok THEN text
    ELSE LET real == parse_f32(text.val) IN
         IF ~real.ok THEN real
         ELSE IF real.val.neg THEN Ok(0)
         ELSE IF (real.val.num * U8Max) \div real.val.scale > U8Max THEN Ok(U8Max)
         ELSE Ok((real.val.num * U8Max) \div real.val.scale)

\* the component a component key assigns, "-" for the two keys that are
\* skipped, "_" for the default arm
ComponentSlot(name) ==
    IF name = <<"Red Component">> THEN "red"
    ELSE IF name = <<"Green Component">> THEN "green"
    ELSE IF name = <<"Blue Component">> THEN "blue"
    ELSE IF name \in {<<"Alpha Component">>, <<"Color Space">>} THEN "-"
    ELSE "_"

RECURSIVE ComponentLoop(_, _, _)
\* the loop over element_nodes.chunks(2) from the k-th chunk on; a last chunk
\* of one element is passed over
ComponentLoop(nodes, k, color) ==
    IF 2 * k > Len(nodes) THEN Ok(color)
    ELSE LET component_name == extract_text(nodes[2 * k - 1]) IN
         IF ~component_name.ok THEN component_name
         ELSE LET slot == ComponentSlot(component_name.val) IN
              IF slot = "_" THEN Err("UnknownColorComponent")
              ELSE IF slot = "-" THEN ComponentLoop(nodes, k + 1, color)
              ELSE LET byte == extract_real_color(nodes[2 * k]) IN
                   IF ~byte.ok THEN byte
                   ELSE ComponentLoop(nodes, k + 1, [color EXCEPT ![slot] = byte.val])

\* the arms of the match on color_name in from_iterm, in source order
ItermArms ==
    << <<"Ansi 0 Color", "black">>, <<"Ansi 1 Color", "red">>,
       <<"Ansi 2 Color", "green">>, <<"Ansi 3 Color", "yellow">>,
       <<"Ansi 4 Color", "blue">>, <<"Ansi 5 Color", "magenta">>,
       <<"Ansi 6 Color", "cyan">>, <<"Ansi 7 Color", "white">>,
       <<"Ansi 8 Color", "bright_black">>, <<"Ansi 9 Color", "bright_red">>,
       <<"Ansi 10 Color", "bright_green">>, <<"Ansi 11 Color", "bright_yellow">>,
       <<"Ansi 12 Color", "bright_blue">>, <<"Ansi 13 Color", "bright_magenta">>,
       <<"Ansi 14 Color", "bright_cyan">>, <<"Ansi 15 Color", "bright_white">>,
       <<"Background Color", "background">>, <<"Foreground Color", "foreground">>,
       <<"Cursor Color", "cursor">>, <<"Cursor Text Color", "cursor_text">> >>

\* the slot the match assigns for a top-level key, "_" for the default arm
ItermSlot(name) ==
    IF \E i \in DOMAIN ItermArms : name = <<ItermArms[i][1]>>
    THEN ItermArms[CHOOSE i \in DOMAIN ItermArms : name = <<ItermArms[i][1]>>][2]
    ELSE "_"

\* the assignment of one arm: the two cursor colours are Options
Assign(scheme, slot, color) ==
    IF slot = "_" THEN scheme
    ELSE IF slot \in {"cursor", "cursor_text"}
    THEN [scheme EXCEPT ![slot] = Some(color)]
    ELSE [scheme EXCEPT ![slot] = color]

RECURSIVE ItermLoop(_, _, _, _)
\* the loop over keys.zip(values) from the i-th pair on
ItermLoop(keys, values, i, scheme) ==
    IF i > Len(keys) \/ i > Len(values) THEN Ok(scheme)
    ELSE LET color_name == extract_text(keys[i]) IN
         IF ~color_name.ok THEN color_name
         ELSE LET color == ComponentLoop(ElementsOf(values[i].children), 1, DefaultColor)
              IN  IF ~color.ok THEN color
                  ELSE ItermLoop(keys, values, i + 1,
                                 Assign(scheme, ItermSlot(color_name.val), color.val))

\* ColorScheme::from_iterm, from the outcome of content.parse::<Element>() on
from_iterm(parsed) ==
    IF ~parsed.ok THEN Err("XMLParse")
    ELSE LET dicts == get_children(parsed.val, "dict") IN
         IF Len(dicts) = 0 THEN Err("NoRootDict")
         ELSE ItermLoop(get_children(dicts[1], "key"),
                        get_children(dicts[1], "dict"), 1, DefaultScheme)

-----------------------------------------------------------------------------
(* src/provider.rs: Provider *)

\* Provider::iterm()
iterm ==
    [user_name |-> <<"mbadolato">>, repo_name |-> <<"iTerm2-Color-Schemes">>,
     list_path |-> <<"schemes">>,
     extension |-> <<".", "i", "t", "e", "r", "m", "c", "o", "l", "o", "r", "s">>]

\* Provider::gogh()
gogh ==
    [user_name |-> <<"Gogh-Co">>, repo_name |-> <<"Gogh">>,
     list_path |-> <<"themes">>, extension |-> <<".", "s", "h">>]

\* str::starts_with(char)
starts_with(s, c) == Len(s) > 0 /\ s[1] = c

\* str::ends_with(&str)
ends_with(s, suffix) ==
    /\ Len(s) >= Len(suffix)
    /\ SubSeq(s, Len(s) - Len(suffix) + 1, Len(s)) = suffix

MatchesAt(s, i, pat) ==
    /\ i + Len(pat) - 1 <= Len(s)
    /\ SubSeq(s, i, i + Len(pat) - 1) = pat

RECURSIVE RemoveFrom(_, _, _)
\* str::replace(pat, ""): every occurrence of pat, from the left, is removed
RemoveFrom(s, i, pat) ==
    IF i > Len(s) THEN <<>>
    ELSE IF MatchesAt(s, i, pat) THEN RemoveFrom(s, i + Len(pat), pat)
    ELSE <<s[i]>> \o RemoveFrom(s, i + 1, pat)

replace(s, pat) == RemoveFrom(s, 1, pat)

\* Provider::repo_dir, below the user's cache directory
repo_dir(p) == <<<<"colortty">>, <<"repositories">>, p.user_name, p.repo_name>>

\* PathBuf::push of one relative component; an empty one adds no component
push(path, name) == IF name = <<>> THEN path ELSE Append(path, name)

\* Path::file_stem of a file name: the name up to its last '.', the whole name
\* when it holds no '.' or only a leading one
file_stem(file) ==
    LET dots == {i \in DOMAIN file : file[i] = "."} IN
    IF dots = {} THEN file
    ELSE LET last == CHOOSE i \in dots : \A j \in dots : j <= i IN
         IF last = 1 THEN file ELSE SubSeq(file, 1, last - 1)

\* PathBuf::set_extension: the last component is cut back to its stem and
\* '.' and the extension are put behind it; ".." has no file name and stays
set_extension(path, ext) ==
    LET file == path[Len(path)] IN
    IF file = <<".", ".">> THEN path
    ELSE [path EXCEPT ![Len(path)] =
             file_stem(file) \o (IF ext = <<>> THEN <<>> ELSE <<".">> \o ext)]

\* Provider::individual_path
individual_path(p, name) ==
    set_extension(push(repo_dir(p), name), Tail(p.extension))

\* Provider::individual_url: the last segment of the URL, which is what tells
\* the URLs of one provider apart
individual_url(p, name) == name \o p.extension

\* the content of a scheme file: where it came from and whether it is a
\* document ColorScheme::from_iterm accepts
Body(src, wf) == [src |-> src, wf |-> wf]

\* Provider::parse_color_scheme: from_iterm for the iTerm provider, and
\* from_gogh, which returns Ok for every text, otherwise
parse_color_scheme(p, body) ==
    IF p.extension = iterm.extension
    THEN (IF body.wf THEN Ok("scheme") ELSE Err("parse"))
    ELSE Ok("scheme")

\* the entries of the cache directory
DirEntries(p, fs) ==
    { path[Len(path)] : path \in
        { q \in DOMAIN fs.files :
            Len(q) = Len(repo_dir(p)) + 1 /\ SubSeq(q, 1, Len(q) - 1) = repo_dir(p) } }

\* Provider::read_color_scheme
read_color_scheme(p, fs, name) ==
    LET file_path == individual_path(p, name) IN
    IF file_path \notin DOMAIN fs.files THEN Err("read file")
    ELSE LET color_scheme == parse_color_scheme(p, fs.files[file_path]) IN
         IF ~color_scheme.ok THEN color_scheme ELSE Ok(name)

\* Provider::read_color_schemes: the names read, or the failure of read_dir or
\* of one of the reads joined by try_join_all
read_color_schemes(p, fs) ==
    IF ~fs.dir THEN Err("read dir")
    ELSE LET names == { replace(f, p.extension) : f \in DirEntries(p, fs) }
             failed == { n \in names : ~read_color_scheme(p, fs, n).ok }
         IN  IF failed # {}
             THEN read_color_scheme(p, fs, CHOOSE n \in failed : TRUE)
             ELSE Ok(names)

\* one record of the listing: its `name` when that is a string
Named(filename) == [name |-> Some(filename)]
Nameless == [name |-> None]

\* the filter of download_all's loop
Eligible(p, filename) ==
    ~(starts_with(filename, "_") \/ ~ends_with(filename, p.extension))

\* a download future as pushed, not polled yet: download_color_scheme(req,
\* name) with the request's URL, and the path it will write
Future(p, filename) ==
    LET name == replace(filename, p.extension) IN
    [file |-> filename, name |-> name, url |-> individual_url(p, name),
     path |-> individual_path(p, name), st |-> "created"]

RECURSIVE RunLoop(_, _, _, _)
\* the loop of download_all from item i on, up to its next await or its
\* return: "join" with the futures to await, "return" when the items are
\* exhausted, "panic" when unwrap meets a record without a string name
RunLoop(p, its, i, futs) ==
    IF i > Len(its) THEN [at |-> "return", idx |-> i, futures |-> futs]
    ELSE IF ~its[i].name.some THEN [at |-> "panic", idx |-> i, futures |-> futs]
    ELSE LET filename == its[i].name.val IN
         IF ~Eligible(p, filename) THEN RunLoop(p, its, i + 1, futs)
         ELSE LET pushed == Append(futs, Future(p, filename)) IN
              IF Len(pushed) > BatchLimit
              THEN [at |-> "join", idx |-> i, futures |-> pushed]
              ELSE RunLoop(p, its, i + 1, pushed)

-----------------------------------------------------------------------------
(* The colour texts the Color specification starts from *)

\* fields of a colour text: valid bytes, leading zeros, a sign, an overflow,
\* letters, the empty field
FieldPool ==
    { <<>>, <<"0">>, <<"0", "0", "7">>, <<"2", "5", "5">>, <<"2", "5", "6">>,
      <<"+", "5">>, <<"-", "0">>, <<"a", "b", "c">> }

FieldTexts ==
    UNION { { Join(fs, ",") : fs \in [1..n -> FieldPool] } : n \in 1..MaxFields }

ByteSamples == {0, 3, 12, 255}

\* "R,G,B" in decimal: every value of one component beside samples of the others
ByteTriples ==
    ((0..U8Max) \X ByteSamples \X ByteSamples)
        \cup (ByteSamples \X (0..U8Max) \X ByteSamples)
        \cup (ByteSamples \X ByteSamples \X (0..U8Max))

MinttyText(r, g, b) == Join(<<Dec(r), Dec(g), Dec(b)>>, ",")

TripleTexts == { MinttyText(t[1], t[2], t[3]) : t \in ByteTriples }

ColorIdle ==
    /\ cInput = <<>>
    /\ cResult = Err("none")
    /\ cHex = <<>>
    /\ cPc = "idle"

MinttyIdle ==
    /\ mContent = <<>>
    /\ mResult = Err("none")
    /\ mDoc = <<>>
    /\ mPc = "idle"

GoghIdle ==
    /\ gCall = "none"
    /\ gInput = <<>>
    /\ gResult = Err("none")
    /\ gPc = "idle"

ItermIdle ==
    /\ iRoot = <<>>
    /\ iResult = Err("none")
    /\ iDoc = <<>>
    /\ iPc = "idle"

-----------------------------------------------------------------------------
(* The Mintty texts the Mintty specification starts from *)

NumKeys == Len(MinttyArms)

\* the colour variant v gives to the k-th key: distinct for distinct keys
FixtureColor(k, v) ==
    [red |-> (13 * k + v) % (U8Max + 1), green |-> (7 * k + 2 * v) % (U8Max + 1),
     blue |-> U8Max - k - v]

ColorText(c) == MinttyText(c.red, c.green, c.blue)

FixtureLine(k, v) == <<MinttyArms[k][1], "=">> \o ColorText(FixtureColor(k, v))

\* a text with each of the 18 keys once, the key order rotated by rot, every
\* line ended by "\n"
FixtureText(rot, v) ==
    Join([i \in 1..NumKeys |-> FixtureLine(((i + rot - 1) % NumKeys) + 1, v)], "\n")
        \o <<"\n">>

Fixtures == { FixtureText(rot, v) : rot \in 0..(NumKeys - 1), v \in 0..MaxVariant }

\* lines of short texts: valid lines (one key twice), an unknown key, a line
\* without '=', an empty line, a second '=', colours that do not decode
LinePool ==
    { <<"Black", "=", "1", ",", "2", ",", "3">>,
      <<"Black", "=", "4", ",", "5", ",", "6">>,
      <<"BoldRed", "=", "2", "5", "5", ",", "0", ",", "9">>,
      <<"Purple", "=", "1", ",", "2", ",", "3">>,
      <<"Purple", "=", "1", ",", "2">>,
      <<"Black">>,
      <<>>,
      <<"Red", "=", "1", ",", "2", ",", "3", "=", "4">>,
      <<"Red", "=", "1", ",", "2">>,
      <<"Red", "=", "2", "5", "6", ",", "0", ",", "0">> }

ShortTexts ==
    UNION { { Join(ls, "\n") : ls \in [1..n -> LinePool] } : n \in 0..MaxLines }

-----------------------------------------------------------------------------
(* The texts the Gogh specification starts from *)

\* two characters of a colour text: hexadecimal digits of either case, a
\* sign, a letter that is no digit
HexPairPool ==
    { <<"0", "0">>, <<"f", "F">>, <<"0", "c">>, <<"+", "f">>, <<"g", "0">> }

\* the texts handed to from_gogh_color: '#' and three pairs, with and without
\* one more character, and every text they begin with (the empty one too)
GoghColorTexts ==
    { SubSeq(<<"#">> \o p1 \o p2 \o p3 \o <<"0">>, 1, n) :
        p1 \in HexPairPool, p2 \in HexPairPool, p3 \in HexPairPool, n \in 0..8 }

\* #rrggbb of a colour
GoghColorText(c) == <<"#">> \o SubSeq(to_hex(c), 3, 8)

Export(name, value) == ExportWord \o name \o <<"=", "\"">> \o value \o <<"\"">>

Comment == <<" ", "#", " ", "x">>

\* the line of the k-th name in colouring v, every third one with a comment
\* behind it, every fourth one behind an export of another name
GoghFixtureLine(k, v) ==
    LET line == Export(GoghArms[k][1], GoghColorText(FixtureColor(k, v))) IN
    IF k % 3 = 0 THEN line \o Comment
    ELSE IF k % 4 = 0
    THEN line \o <<"\n">> \o Export(<<"P", "R", "O", "F", "I", "L", "E">>, <<"#", "1", "2", "3", "4", "5", "6">>)
    ELSE line

\* a script with each of the 18 names once, the order rotated by rot
GoghFixtureText(rot, v) ==
    Join([i \in 1..NumKeys |-> GoghFixtureLine(((i + rot - 1) % NumKeys) + 1, v)], "\n")
        \o <<"\n">>

GoghFixtures == { GoghFixtureText(rot, v) : rot \in {0, 7}, v \in 0..MaxVariant }

\* lines of short scripts: one name twice, a comment behind the export, text
\* in front of it, names that are not recognized, a value of five digits, a
\* name in lowercase, two exports in one line, an empty line
GoghLinePool ==
    { Export(Color_("0", "1"), <<"#", "1", "1", "2", "2", "3", "3">>),
      Export(Color_("0", "1"), <<"#", "A", "A", "b", "b", "C", "C">>),
      Export(Color_("1", "0"), <<"#", "0", "c", "0", "3", "f", "f">>) \o Comment,
      <<"#", " ">> \o Export(BACKGROUND_COLOR, <<"#", "4", "4", "5", "5", "6", "6">>),
      Export(<<"P", "R", "O", "F", "I", "L", "E">>, <<"#", "1", "2", "3", "4", "5", "6">>),
      Export(Color_("1", "7"), <<"#", "1", "2", "3", "4", "5", "6">>),
      Export(Color_("0", "2"), <<"#", "1", "2", "3", "4", "5">>),
      Export(<<"c", "o", "l", "o", "r", "_", "0", "2">>, <<"#", "1", "2", "3", "4", "5", "6">>),
      Export(<<"A">>, <<"#", "1", "1", "1", "1", "1", "1">>) \o <<" ">>
          \o Export(Color_("0", "4"), <<"#", "2", "2", "2", "2", "2", "2">>),
      <<>> }

GoghShortTexts ==
    UNION { { Join(ls, "\n") : ls \in [1..n -> GoghLinePool] } : n \in 0..MaxLines }

-----------------------------------------------------------------------------
(* The documents the iTerm specification starts from *)

\* <key>name</key> and <real>text</real>
Key(name) == Elem("key", <<Text(<<name>>)>>)
Real(text) == Elem("real", <<Text(text)>>)

Space == Text(<<" ">>)

\* a dict of the three colour components, with the alpha component, the
\* colour space and whitespace between the elements
ColorDict(r, g, b) ==
    Elem("dict",
         << Space, Key("Alpha Component"), Real(<<"1">>),
            Space, Key("Blue Component"), Real(b),
            Space, Key("Color Space"), Elem("string", <<Text(<<"sRGB">>)>>),
            Space, Key("Green Component"), Real(g),
            Space, Key("Red Component"), Real(r), Space >>)

\* 0.5, 1, 0.25: the colour (127, 255, 63)
DictA == ColorDict(<<"0", ".", "5">>, <<"1">>, <<"0", ".", "2", "5">>)

\* 0, 0.75, 1.0: the colour (0, 191, 255)
DictB == ColorDict(<<"0">>, <<"0", ".", "7", "5">>, <<"1", ".", "0">>)

\* 2, -1, and no blue component: the colour (255, 0, 0); a last element alone
DictC ==
    Elem("dict", << Key("Red Component"), Real(<<"2">>),
                    Key("Green Component"), Real(<<"-", "1">>), Key("Blue Component") >>)

\* a component key that is not recognized
DictUnknown ==
    Elem("dict", << Key("Red Component"), Real(<<"1">>),
                    Key("Hue Component"), Real(<<"1">>) >>)

\* a component value without a child, <real/>
DictEmptyValue == Elem("dict", << Key("Red Component"), Elem("real", <<>>) >>)

\* a component value that is no number
DictNotReal == Elem("dict", << Key("Red Component"), Real(<<"a", "b", "c">>) >>)

\* a component key whose first child is no character node
DictKeyNoText ==
    Elem("dict", << Elem("key", <<CommentNode, Text(<<"Red Component">>)>>),
                    Real(<<"1">>) >>)

\* what may stand among the children of the root dictionary: a key and its
\* dict, for recognized names (one of them twice) and for one that is not, a
\* key followed by a value that is no dict, a dict without a key, keys
\* without text
EntryPool ==
    { << Key("Ansi 0 Color"), DictA >>,
      << Key("Ansi 0 Color"), Space, DictB >>,
      << Key("Ansi 9 Color"), DictB >>,
      << Key("Ansi 1 Color"), DictC >>,
      << Key("Cursor Color"), DictA >>,
      << Key("Cursor Text Color"), DictB >>,
      << Key("Tab Color"), DictB >>,
      << Key("Tab Color"), DictUnknown >>,
      << Key("Ansi 2 Color"), DictUnknown >>,
      << Key("Ansi 3 Color"), DictEmptyValue >>,
      << Key("Ansi 4 Color"), DictNotReal >>,
      << Key("Ansi 5 Color"), DictKeyNoText >>,
      << Key("Name"), Elem("string", <<Text(<<"Dracula">>)>>) >>,
      << DictB >>,
      << Elem("key", <<>>), DictA >>,
      << Elem("key", <<Elem("b", <<>>)>>), DictA >>,
      << Space >> }

RECURSIVE Concat(_)
Concat(seqs) == IF Len(seqs) = 0 THEN <<>> ELSE seqs[1] \o Concat(Tail(seqs))

\* <plist> with one root dictionary of up to MaxEntries entries
Plist(children) == Elem("plist", <<Space, Elem("dict", children), Space>>)

Documents ==
    UNION { { Ok(Plist(Concat(es))) : es \in [1..n -> EntryPool] } : n \in 0..MaxEntries }

\* a text that is no XML, a document without a dictionary, and a document
\* with a second dictionary behind the root dictionary
OtherDocuments ==
    { Err("no element"),
      Ok(Elem("plist", <<Space>>)),
      Ok(Elem("plist", << Elem("dict", <<Key("Ansi 0 Color"), DictA>>),
                          Elem("dict", <<Key("Ansi 0 Color"), DictB>>) >>)) }

-----------------------------------------------------------------------------
(* The catalogs and caches the Provider specification starts from *)

Letters == <<"a", "b", "c", "d", "e", "f", "g", "h">>

Stem(i) == <<Letters[(i \div 8) + 1], Letters[(i % 8) + 1]>>

\* the i-th file of the catalog: a file that begins with '_', a file of
\* another kind, scheme files with a '.' in their name (two in the first
\* batch, one in the second), and plainly named scheme files
PoolFile(p, i) ==
    IF i = 1 THEN <<"_", "b", "a", "s", "e">> \o p.extension
    ELSE IF i = 2 THEN <<"R", "E", "A", "D", "M", "E", ".", "m", "d">>
    ELSE IF i = 3 THEN Stem(3) \o <<".", "x">> \o p.extension
    ELSE IF i = 4 THEN Stem(3) \o <<".", "y">> \o p.extension
    ELSE IF i = BatchLimit + 4 THEN Stem(3) \o <<".", "z">> \o p.extension
    ELSE Stem(i) \o p.extension

\* a listing of the catalog's first n files
Listing(p, n) == [i \in 1..n |-> Named(PoolFile(p, i))]

\* listings: empty, without an eligible file, with one, with those of one
\* batch exactly, and with those of MaxBatches batches and one more
ListingSizes ==
    {0, 2, 3, 2 + (BatchLimit + 1), 2 + MaxBatches * (BatchLimit + 1) + 1}

Response(status, json, its) == [status |-> status, json |-> json, items |-> its]

\* what the listing endpoint may answer: a failure, a body that is no JSON,
\* a JSON array of file records, records without a string `name`
Remotes(p) ==
    { Response("error", FALSE, <<>>), Response("ok", FALSE, <<>>),
      Response("ok", TRUE, <<Named(PoolFile(p, 5)), Nameless>>) }
        \cup { Response("ok", TRUE, Listing(p, n)) : n \in ListingSizes }

NoFiles == [path \in {} |-> Body(<<>>, TRUE)]

CachedPath(p) == individual_path(p, replace(PoolFile(p, 5), p.extension))

\* the cache before the call: no directory, an empty directory, one scheme
\* file downloaded earlier, one scheme file that does not parse
Caches(p) ==
    { [dir |-> FALSE, files |-> NoFiles],
      [dir |-> TRUE, files |-> NoFiles],
      [dir |-> TRUE, files |-> [path \in {CachedPath(p)} |-> Body(PoolFile(p, 5), TRUE)]],
      [dir |-> TRUE, files |-> [path \in {CachedPath(p)} |-> Body(<<"corrupt">>, FALSE)]] }

Pending == Err("pending")

InitProvider ==
    /\ provider = iterm
    /\ op \in {"list", "download_all"}
    /\ remote \in Remotes(provider)
    /\ cache \in Caches(provider)
    /\ pc = (IF op = "list" THEN "list" ELSE "download")
    /\ items = <<>>
    /\ idx = 0
    /\ futures = <<>>
    /\ result = Pending
    /\ log = [initial |-> cache, downloads |-> (IF op = "list" THEN 0 ELSE 1),
              listRequests |-> 0, started |-> {}, batch |-> 0, failedBatch |-> 0,
              snapshot |-> cache.files, readErrors |-> {}]
    /\ ColorIdle
    /\ MinttyIdle
    /\ GoghIdle
    /\ ItermIdle

ProviderIdle ==
    /\ provider = gogh
    /\ op = "none"
    /\ remote = Response("error", FALSE, <<>>)
    /\ cache = [dir |-> FALSE, files |-> NoFiles]
    /\ pc = "idle"
    /\ items = <<>>
    /\ idx = 0
    /\ futures = <<>>
    /\ result = Pending
    /\ log = <<>>

\* the call returns r to its caller
Return(r) ==
    /\ pc' = "returned"
    /\ result' = r
    /\ futures' = <<>>

\* Provider::list up to its first await of download_all: the cache is read,
\* and its schemes are returned when the read succeeds with any; every other
\* outcome of the read falls through to download_all
ListRead ==
    /\ pc = "list"
    /\ LET r == read_color_schemes(provider, cache)
           done == r.ok /\ Cardinality(r.val) > 0
       IN  /\ log' = [log EXCEPT
                      !.readErrors = IF r.ok THEN @ ELSE @ \cup {r.err},
                      !.downloads = IF done THEN @ ELSE @ + 1]
           /\ IF done
              THEN Return(r)
              ELSE pc' = "download" /\ UNCHANGED <<result, futures>>
    /\ UNCHANGED <<provider, op, remote, cache, items, idx>>
    /\ UNCHANGED <<colorVars, minttyVars, goghVars, itermVars>>

\* download_all: create_dir_all succeeds and the listing is requested
RequestListing ==
    /\ pc = "download"
    /\ cache' = [cache EXCEPT !.dir = TRUE]
    /\ log' = [log EXCEPT !.listRequests = @ + 1]
    /\ pc' = "listing"
    /\ UNCHANGED <<provider, op, remote, items, idx, futures, result>>
    /\ UNCHANGED <<colorVars, minttyVars, goghVars, itermVars>>

\* download_all: create_dir_all fails
CreateDirFails ==
    /\ pc = "download"
    /\ ~cache.dir
    /\ Return(Err("create dir"))
    /\ UNCHANGED <<provider, op, remote, cache, items, idx, log>>
    /\ UNCHANGED <<colorVars, minttyVars, goghVars, itermVars>>

\* what the instrumented transport records when try_join_all first polls the
\* futures of a batch: each sends its request
BatchStarted(lg, futs, fs) ==
    [lg EXCEPT
        !.batch = @ + 1,
        !.snapshot = fs.files,
        !.started = @ \cup
            { [file |-> futs[i].file, url |-> futs[i].url, path |-> futs[i].path,
               batch |-> lg.batch + 1] : i \in DOMAIN futs }]

\* download_all from the end of an await to its next await or its end, where
\* its loop stands as `at` says: a panic of unwrap, the return of Ok(()) (to
\* list, which reads the cache again, or to the caller), or try_join_all
Resume(at, fs, lg) ==
    /\ idx' = at.idx
    /\ cache' = fs
    /\ IF at.at = "panic"
       THEN /\ pc' = "panicked"
            /\ futures' = <<>>
            /\ UNCHANGED result
            /\ log' = lg
       ELSE IF at.at = "return"
       THEN \* the futures pushed since the last await are dropped unpolled
            /\ futures' = <<>>
            /\ log' = lg
            /\ IF op = "list"
               THEN pc' = "reread" /\ UNCHANGED result
               ELSE pc' = "returned" /\ result' = Ok("unit")
       ELSE /\ pc' = "join"
            /\ futures' = [i \in DOMAIN at.futures |->
                              [at.futures[i] EXCEPT !.st = "fetching"]]
            /\ UNCHANGED result
            /\ log' = BatchStarted(lg, at.futures, fs)

\* download_all: the listing request fails
ListingFails ==
    /\ pc = "listing"
    /\ remote.status # "ok"
    /\ Return(Err("http"))
    /\ UNCHANGED <<provider, op, remote, cache, items, idx, log>>
    /\ UNCHANGED <<colorVars, minttyVars, goghVars, itermVars>>

\* download_all: the listing's body is not JSON
ListingMalformed ==
    /\ pc = "listing"
    /\ remote.status = "ok" /\ ~remote.json
    /\ Return(Err("json"))
    /\ UNCHANGED <<provider, op, remote, cache, items, idx, log>>
    /\ UNCHANGED <<colorVars, minttyVars, goghVars, itermVars>>

\* download_all: the listing arrives and parses, and the loop runs
ListingArrives ==
    /\ pc = "listing"
    /\ remote.status = "ok" /\ remote.json
    /\ items' = remote.items
    /\ Resume(RunLoop(provider, remote.items, 1, <<>>), cache, log)
    /\ UNCHANGED <<provider, op, remote>>
    /\ UNCHANGED <<colorVars, minttyVars, goghVars, itermVars>>

\* the raw-content endpoint serves the files of the catalog
Served(url) == \E i \in DOMAIN remote.items :
                   remote.items[i].name.some /\ remote.items[i].name.val = url

AbortBatch(e) ==
    /\ Return(Err(e))
    /\ log' = [log EXCEPT !.failedBatch = log.batch]
    /\ UNCHANGED <<provider, op, remote, cache, items, idx>>
    /\ UNCHANGED <<colorVars, minttyVars, goghVars, itermVars>>

\* download_color_scheme: the request of a future in flight fails;
\* try_join_all returns the failure, dropping the other futures, and
\* download_all (and list, when it is the caller) returns it
FetchFails ==
    /\ pc = "join"
    /\ {i \in DOMAIN futures : futures[i].st = "fetching"} # {}
    /\ AbortBatch("fetch")

\* download_color_scheme: the body of a future in flight arrives and
\* fs::write fails
WriteFails ==
    /\ pc = "join"
    /\ {i \in DOMAIN futures : futures[i].st = "fetching" /\ Served(futures[i].url)} # {}
    /\ AbortBatch("write")

\* the mutant of FetchDone: the loop goes on as soon as one future of the
\* batch is done, without waiting for the others
FetchDone_eager(i) ==
    /\ pc = "join"
    /\ futures[i].st = "fetching"
    /\ Served(futures[i].url)
    /\ LET path == futures[i].path
           fs == [cache EXCEPT !.files =
                     [q \in DOMAIN cache.files \cup {path} |->
                         IF q = path THEN Body(futures[i].url, TRUE)
                         ELSE cache.files[q]]]
       IN  Resume(RunLoop(provider, items, idx + 1, <<>>), fs, log)
    /\ UNCHANGED <<provider, op, remote, items>>
    /\ UNCHANGED <<colorVars, minttyVars, goghVars, itermVars>>

\* download_color_scheme: the body of future i arrives and is written; with
\* the last future of the batch, try_join_all returns and the loop goes on
FetchDone(i) ==
    /\ pc = "join"
    /\ futures[i].st = "fetching"
    /\ Served(futures[i].url)
    /\ LET path == futures[i].path
           fs == [cache EXCEPT !.files =
                     [q \in DOMAIN cache.files \cup {path} |->
                         IF q = path THEN Body(futures[i].url, TRUE)
                         ELSE cache.files[q]]]
       IN  IF \E j \in DOMAIN futures : j # i /\ futures[j].st = "fetching"
           THEN /\ futures' = [futures EXCEPT ![i].st = "done"]
                /\ cache' = fs
                /\ UNCHANGED <<pc, idx, result, log>>
           ELSE Resume(RunLoop(provider, items, idx + 1, <<>>), fs, log)
    /\ UNCHANGED <<provider, op, remote, items>>
    /\ UNCHANGED <<colorVars, minttyVars, goghVars, itermVars>>

\* Provider::list after download_all returned Ok: the cache is read again
\* and the outcome of the read is returned
ListReread ==
    /\ pc = "reread"
    /\ LET r == read_color_schemes(provider, cache) IN
       /\ log' = [log EXCEPT !.readErrors = IF r.ok THEN @ ELSE @ \cup {r.err}]
       /\ Return(r)
    /\ UNCHANGED <<provider, op, remote, cache, items, idx>>
    /\ UNCHANGED <<colorVars, minttyVars, goghVars, itermVars>>

NextProvider ==
    \/ ListRead
    \/ RequestListing
    \/ CreateDirFails
    \/ ListingFails
    \/ ListingMalformed
    \/ ListingArrives
    \/ FetchFails
    \/ WriteFails
    \/ \E i \in DOMAIN futures : FetchDone(i)
    \/ ListReread

-----------------------------------------------------------------------------
(* The specifications *)

InitMintty ==
    /\ mContent \in Fixtures \cup ShortTexts
    /\ mResult = Err("none")
    /\ mDoc = <<>>
    /\ mPc = "start"
    /\ ColorIdle
    /\ ProviderIdle
    /\ GoghIdle
    /\ ItermIdle

\* a call of ColorScheme::from_minttyrc on the text
Parse ==
    /\ mPc = "start"
    /\ mResult' = from_minttyrc(mContent)
    /\ mPc' = "parsed"
    /\ UNCHANGED <<mContent, mDoc>>
    /\ UNCHANGED <<colorVars, providerVars, goghVars, itermVars>>

\* a call of ColorScheme::to_toml on the parsed scheme
Render ==
    /\ mPc = "parsed"
    /\ mResult.ok
    /\ mDoc' = to_toml(mResult.val)
    /\ mPc' = "rendered"
    /\ UNCHANGED <<mContent, mResult>>
    /\ UNCHANGED <<colorVars, providerVars, goghVars, itermVars>>

NextMintty == Parse \/ Render

InitColor ==
    /\ cInput \in FieldTexts \cup TripleTexts
    /\ cResult = Err("none")
    /\ cHex = <<>>
    /\ cPc = "start"
    /\ MinttyIdle
    /\ ProviderIdle
    /\ GoghIdle
    /\ ItermIdle

\* a call of Color::from_mintty_color on the text
Decode ==
    /\ cPc = "start"
    /\ cResult' = from_mintty_color(cInput)
    /\ cPc' = "parsed"
    /\ UNCHANGED <<cInput, cHex>>
    /\ UNCHANGED <<minttyVars, providerVars, goghVars, itermVars>>

\* a call of Color::to_hex on the decoded colour
ToHex ==
    /\ cPc = "parsed"
    /\ cResult.ok
    /\ cHex' = to_hex(cResult.val)
    /\ cPc' = "hexed"
    /\ UNCHANGED <<cInput, cResult>>
    /\ UNCHANGED <<minttyVars, providerVars, goghVars, itermVars>>

NextColor == Decode \/ ToHex

InitGogh ==
    /\ \/ gCall = "from_gogh_color" /\ gInput \in GoghColorTexts
       \/ gCall = "from_gogh" /\ gInput \in GoghFixtures \cup GoghShortTexts
    /\ gResult = Err("none")
    /\ gPc = "start"
    /\ ColorIdle
    /\ MinttyIdle
    /\ ProviderIdle
    /\ ItermIdle

\* a call of Color::from_gogh_color on the text
DecodeGogh ==
    /\ gPc = "start"
    /\ gCall = "from_gogh_color"
    /\ gResult' = from_gogh_color(gInput)
    /\ gPc' = "done"
    /\ UNCHANGED <<gCall, gInput>>
    /\ UNCHANGED <<colorVars, minttyVars, providerVars, itermVars>>

\* a call of ColorScheme::from_gogh on the text
ParseGogh ==
    /\ gPc = "start"
    /\ gCall = "from_gogh"
    /\ gResult' = from_gogh(gInput)
    /\ gPc' = "done"
    /\ UNCHANGED <<gCall, gInput>>
    /\ UNCHANGED <<colorVars, minttyVars, providerVars, itermVars>>

NextGogh == DecodeGogh \/ ParseGogh

InitIterm ==
    /\ iRoot \in Documents \cup OtherDocuments
    /\ iResult = Err("none")
    /\ iDoc = <<>>
    /\ iPc = "start"
    /\ ColorIdle
    /\ MinttyIdle
    /\ ProviderIdle
    /\ GoghIdle

\* a call of ColorScheme::from_iterm on the document
ParseIterm ==
    /\ iPc = "start"
    /\ iResult' = from_iterm(iRoot)
    /\ iPc' = "parsed"
    /\ UNCHANGED <<iRoot, iDoc>>
    /\ UNCHANGED <<colorVars, minttyVars, providerVars, goghVars>>

\* a call of ColorScheme::to_toml on the parsed scheme
RenderIterm ==
    /\ iPc = "parsed"
    /\ iResult.ok
    /\ iDoc' = to_toml(iResult.val)
    /\ iPc' = "rendered"
    /\ UNCHANGED <<iRoot, iResult>>
    /\ UNCHANGED <<colorVars, minttyVars, providerVars, goghVars>>

NextIterm == ParseIterm \/ RenderIterm

vars == <<colorVars, minttyVars, providerVars, goghVars, itermVars>>

SpecColor == InitColor /\ [][NextColor]_vars

SpecMintty == InitMintty /\ [][NextMintty]_vars

SpecProvider == InitProvider /\ [][NextProvider]_vars

SpecGogh == InitGogh /\ [][NextGogh]_vars

SpecIterm == InitIterm /\ [][NextIterm]_vars

-----------------------------------------------------------------------------
(* Claims about Color *)

AllDigits(f) == \A i \in DOMAIN f : IndexOf(f[i], DigitChars) # 0

RECURSIVE DecValue(_)
\* the number an all-digit text denotes
DecValue(f) ==
    IF Len(f) = 0 THEN 0
    ELSE 10 * DecValue(SubSeq(f, 1, Len(f) - 1)) + (IndexOf(f[Len(f)], DigitChars) - 1)

\* a decimal integer in [0,255]: one or more digits, the value at most 255
IsDecimalByte(f) == Len(f) > 0 /\ AllDigits(f) /\ DecValue(f) <= U8Max

\* what u8's parser accepts: the same, after at most one leading '+'
UnsignedOf(f) == IF Len(f) > 0 /\ f[1] = "+" THEN Tail(f) ELSE f

IsPlusDecimalByte(f) == IsDecimalByte(UnsignedOf(f))

InputFields == Split(cInput, ",")

DecodeOutcome(valid(_), value(_)) ==
    LET fs == InputFields IN
    /\ cResult.ok <=> (Len(fs) = 3 /\ \A i \in 1..3 : valid(fs[i]))
    /\ cResult.ok =>
          cResult.val = [red |-> value(fs[1]), green |-> value(fs[2]),
                         blue |-> value(fs[3])]
    /\ Len(fs) # 3 => cResult = Err("InvalidColorFormat")
    /\ (Len(fs) = 3 /\ ~cResult.ok) => cResult = Err("ParseInt")

PlusValue(f) == DecValue(UnsignedOf(f))

\* C8 as stated: from_mintty_color succeeds exactly when the text splits on ','
\* into three fields that are each a decimal integer in [0,255] (digits only),
\* returning them as red, green, blue; it fails with InvalidColorFormat when the
\* field count is not 3 and with ParseInt when it is 3 and a field is no byte.
C8_AsStated == cPc \in {"parsed", "hexed"} => DecodeOutcome(IsDecimalByte, DecValue)

\* C8 amended: the same, where a field is accepted exactly when it is one or
\* more decimal digits of value at most 255, optionally preceded by one '+'
\* (leading zeros allowed; '-', blanks and the empty field are rejected).
C8_Decode == cPc \in {"parsed", "hexed"} => DecodeOutcome(IsPlusDecimalByte, PlusValue)

\* a text of three fields, one of them with a '+' sign, has been decoded
C8_Witness ==
    /\ cPc = "parsed"
    /\ cInput = <<"+", "5", ",", "0", "0", "7", ",", "2", "5", "5">>
    /\ cResult = Ok([red |-> 5, green |-> 7, blue |-> 255])

HexValue(c) == IndexOf(c, HexChars) - 1

\* C9: for R, G, B in 0..255, to_hex of from_mintty_color("R,G,B") is 8
\* characters: "0x", then R, G, B each as exactly two lowercase hexadecimal
\* digits, in that order (read back, the digit pairs give R, G, B, so distinct
\* colours give distinct strings).
C9_ToHex ==
    (cPc = "hexed" /\ cInput \in TripleTexts) =>
        /\ Len(cHex) = 8
        /\ cHex[1] = "0" /\ cHex[2] = "x"
        /\ \A i \in 3..8 : IndexOf(cHex[i], HexChars) # 0
        /\ cInput = MinttyText(16 * HexValue(cHex[3]) + HexValue(cHex[4]),
                               16 * HexValue(cHex[5]) + HexValue(cHex[6]),
                               16 * HexValue(cHex[7]) + HexValue(cHex[8]))
        /\ \A t \in ByteSamples \X ByteSamples \X ByteSamples :
              MinttyText(t[1], t[2], t[3]) # cInput =>
                  to_hex([red |-> t[1], green |-> t[2], blue |-> t[3]]) # cHex

\* "12,3,255" has been decoded and rendered as 0x0c03ff
C9_Witness ==
    /\ cPc = "hexed"
    /\ cInput = <<"1", "2", ",", "3", ",", "2", "5", "5">>
    /\ cHex = <<"0", "x", "0", "c", "0", "3", "f", "f">>

-----------------------------------------------------------------------------
(* Claims about the Mintty parser and the renderer *)

DocLines(doc) == Split(doc, "\n")

BlockHeaders ==
    {"[colors.primary]", "[colors.cursor]", "[colors.normal]", "[colors.bright]"}

IsEntry(line) == Len(line) = 3 /\ line[3] = "'"

RECURSIVE EntriesFrom(_, _, _)
\* the entries of a rendered document, in order: the header of the block an
\* entry stands in, the text in front of its value, and its value
EntriesFrom(lines, i, block) ==
    IF i > Len(lines) THEN <<>>
    ELSE IF Len(lines[i]) = 1 /\ lines[i][1] \in BlockHeaders
    THEN EntriesFrom(lines, i + 1, lines[i][1])
    ELSE IF IsEntry(lines[i])
    THEN <<<<block, lines[i][1], lines[i][2]>>>> \o EntriesFrom(lines, i + 1, block)
    ELSE EntriesFrom(lines, i + 1, block)

DocEntries(doc) == EntriesFrom(DocLines(doc), 1, "")

\* the order C10 states: block, entry, and the Mintty key whose colour it shows
RenderOrder ==
    << <<"[colors.primary]", "background = '", "BackgroundColour">>,
       <<"[colors.primary]", "foreground = '", "ForegroundColour">>,
       <<"[colors.normal]", "black =   '", "Black">>,
       <<"[colors.normal]", "red =     '", "Red">>,
       <<"[colors.normal]", "green =   '", "Green">>,
       <<"[colors.normal]", "yellow =  '", "Yellow">>,
       <<"[colors.normal]", "blue =    '", "Blue">>,
       <<"[colors.normal]", "magenta = '", "Magenta">>,
       <<"[colors.normal]", "cyan =    '", "Cyan">>,
       <<"[colors.normal]", "white =   '", "White">>,
       <<"[colors.bright]", "black =   '", "BoldBlack">>,
       <<"[colors.bright]", "red =     '", "BoldRed">>,
       <<"[colors.bright]", "green =   '", "BoldGreen">>,
       <<"[colors.bright]", "yellow =  '", "BoldYellow">>,
       <<"[colors.bright]", "blue =    '", "BoldBlue">>,
       <<"[colors.bright]", "magenta = '", "BoldMagenta">>,
       <<"[colors.bright]", "cyan =    '", "BoldCyan">>,
       <<"[colors.bright]", "white =   '", "BoldWhite">> >>

KeyIndex(key) == CHOOSE k \in 1..NumKeys : MinttyArms[k][1] = key

\* the document C10 expects of the fixture of variant v
ExpectedEntries(v) ==
    [i \in 1..Len(RenderOrder) |->
        <<RenderOrder[i][1], RenderOrder[i][2],
          Hex(FixtureColor(KeyIndex(RenderOrder[i][3]), v))>>]

\* C10: for a Mintty text that gives each of the 18 keys once (in any of the
\* rotated orders), the rendered document lists primary background then
\* foreground, the eight normal and then the eight bright entries black, red,
\* green, yellow, blue, magenta, cyan, white, each with the hex form of the
\* colour of its key, and holds no cursor block.
C10_RenderMintty ==
    \A rot \in 0..(NumKeys - 1), v \in 0..MaxVariant :
        (mPc = "rendered" /\ mContent = FixtureText(rot, v)) =>
            /\ DocEntries(mDoc) = ExpectedEntries(v)
            /\ \A i \in DOMAIN mDoc : mDoc[i] # "[colors.cursor]"

\* a complete fixture, its keys not in the order of the document, was rendered
C10_Witness ==
    /\ mPc = "rendered"
    /\ mContent = FixtureText(5, 2)
    /\ Len(DocEntries(mDoc)) = 18
    /\ DocEntries(mDoc)[12] = <<"[colors.bright]", "red =     '", Hex(FixtureColor(11, 2))>>

MinttyParsed == mPc \in {"parsed", "rendered"}

InputLines == LinesOf(mContent)

KeyNames == { <<MinttyArms[k][1]>> : k \in DOMAIN MinttyArms }

HasEquals(line) == \E i \in DOMAIN line : line[i] = "="

\* a line of shape key=value: one '=', a key in front of it, a value behind it
IsKeyValue(line) == Len(Split(line, "=")) = 2

KeyOf(line) == Split(line, "=")[1]

ValueOf(line) == Split(line, "=")[2]

\* a valid Mintty line: a recognized key, '=', and a colour that decodes
ValidLine(line) ==
    /\ IsKeyValue(line)
    /\ KeyOf(line) \in KeyNames
    /\ from_mintty_color(ValueOf(line)).ok

\* C14: from_minttyrc fails with UnknownColorName for every line key=value
\* whose key is not one of the 18 key names, whatever its value part is (the
\* lines in front of it being valid).
C14_AsStated ==
    MinttyParsed =>
        \A i \in DOMAIN InputLines :
            ( /\ \A j \in 1..(i - 1) : ValidLine(InputLines[j])
              /\ IsKeyValue(InputLines[i])
              /\ KeyOf(InputLines[i]) \notin KeyNames )
            => mResult = Err("UnknownColorName")

\* C17: from_minttyrc skips empty lines and splits a line on its first '='
\* only: it fails with InvalidLineFormat only for a non-empty line without
\* '=', and a text of valid lines with empty lines between them parses.
C17_AsStated ==
    MinttyParsed =>
        /\ mResult = Err("InvalidLineFormat") =>
              \E i \in DOMAIN InputLines :
                  InputLines[i] # <<>> /\ ~HasEquals(InputLines[i])
        /\ (\A i \in DOMAIN InputLines :
                InputLines[i] = <<>> \/ ValidLine(InputLines[i])) => mResult.ok

\* the slots of the 18 keys
KeySlots == { MinttyArms[k][2] : k \in DOMAIN MinttyArms }

SlotKey(slot) ==
    <<MinttyArms[CHOOSE k \in DOMAIN MinttyArms : MinttyArms[k][2] = slot][1]>>

\* the colour the last line with that key carries, black when there is none
LastColor(lines, key) ==
    LET at == {i \in DOMAIN lines : KeyOf(lines[i]) = key} IN
    IF at = {} THEN DefaultColor
    ELSE from_mintty_color(
             ValueOf(lines[CHOOSE i \in at : \A j \in at : j <= i])).val

\* the permutations of the lines that keep lines of one key in their order
KeepsKeyOrder(lines, perm) ==
    \A i, j \in DOMAIN lines :
        (i < j /\ KeyOf(lines[perm[i]]) = KeyOf(lines[perm[j]])) => perm[i] < perm[j]

LineOrders(n) == { f \in [1..n -> 1..n] : \A i, j \in 1..n : f[i] = f[j] => i = j }

Permuted(lines, perm) == Join([i \in DOMAIN lines |-> lines[perm[i]]], "\n")

AllValid == \A i \in DOMAIN InputLines : ValidLine(InputLines[i])

\* C18: for a sequence of valid Mintty lines, each key's slot holds the colour
\* of the last line with that key, slots whose key does not occur are black
\* (the cursor colours absent), and every permutation of the lines that keeps
\* the order of the lines of one key gives the same scheme; the complete
\* texts give the same scheme in each of their rotated orders.
C18_LastWins ==
    (MinttyParsed /\ AllValid) =>
        /\ mResult.ok
        /\ \A slot \in KeySlots :
              mResult.val[slot] = LastColor(InputLines, SlotKey(slot))
        /\ mResult.val.cursor = None /\ mResult.val.cursor_text = None
        /\ Len(InputLines) <= MaxLines + 1 =>
              \A perm \in LineOrders(Len(InputLines)) :
                  KeepsKeyOrder(InputLines, perm) =>
                      from_minttyrc(Permuted(InputLines, perm)) = mResult
        /\ Len(InputLines) = NumKeys =>
              \A rot \in 0..(NumKeys - 1), v \in 0..MaxVariant :
                  mContent = FixtureText(rot, v) =>
                      \A other \in {0, 7} : from_minttyrc(FixtureText(other, v)) = mResult

\* the key Black twice with BoldRed between: the second colour of Black stays
C18_Witness ==
    /\ mPc = "parsed"
    /\ InputLines = << <<"Black", "=", "1", ",", "2", ",", "3">>,
                       <<"BoldRed", "=", "2", "5", "5", ",", "0", ",", "9">>,
                       <<"Black", "=", "4", ",", "5", ",", "6">> >>
    /\ mResult.ok
    /\ mResult.val.black = [red |-> 4, green |-> 5, blue |-> 6]
    /\ mResult.val.bright_red = [red |-> 255, green |-> 0, blue |-> 9]
    /\ mResult.val.red = DefaultColor

-----------------------------------------------------------------------------
(* Claims about the Gogh decoders *)

\* the value of two hexadecimal digits
PairValue(s, i) == 16 * (HexDigit(s[i]) - 1) + (HexDigit(s[i + 1]) - 1)

IsHexPair(s, i) == HexDigit(s[i]) # 0 /\ HexDigit(s[i + 1]) # 0

\* C13: from_gogh_color returns a failure and does not panic for every text
\* shorter than 7 characters; for a text of 7 characters it fails with a parse
\* error if one of the pairs at offsets 1-2, 3-4, 5-6 is not hexadecimal.
C13_AsStated ==
    (gCall = "from_gogh_color" /\ gPc = "done") =>
        /\ Len(gInput) < 7 => (gResult # Panic /\ ~gResult.ok)
        /\ (Len(gInput) = 7 /\ \E i \in {2, 4, 6} : ~IsHexPair(gInput, i)) =>
              gResult = Err("ParseInt")

\* where a line holds export NAME="#RRGGBB", NAME of [A-Z0-9_] and RRGGBB six
\* hexadecimal digits: the position p of the word and the length n of NAME
ExportsIn(line) ==
    { e \in UNION { {<<p, n>> : n \in 1..(Len(line) - p - 16)} :
                     p \in {q \in DOMAIN line : line[q] = "e"} } :
        LET p == e[1]
            n == e[2]
        IN  /\ SubSeq(line, p, p + 6) = ExportWord
            /\ \A i \in (p + 7)..(p + 6 + n) : IsNameChar(line[i])
            /\ SubSeq(line, p + 7 + n, p + 9 + n) = <<"=", "\"", "#">>
            /\ \A i \in (p + 10 + n)..(p + 15 + n) : IsHexChar(line[i])
            /\ line[p + 16 + n] = "\"" }

\* the first of them in the line, <<NAME, RRGGBB>>, or <<>> without one
FirstExport(line) ==
    LET found == ExportsIn(line) IN
    IF found = {} THEN <<>>
    ELSE LET e == CHOOSE x \in found : \A y \in found : x[1] <= y[1]
         IN  <<SubSeq(line, e[1] + 7, e[1] + 6 + e[2]),
               SubSeq(line, e[1] + 10 + e[2], e[1] + 15 + e[2])>>

AnsiNames == <<"black", "red", "green", "yellow", "blue", "magenta", "cyan", "white">>

\* the name C12 gives for a slot: FOREGROUND_COLOR, BACKGROUND_COLOR, COLOR_01
\* to COLOR_08 for normal black..white, COLOR_09 to COLOR_16 for the bright ones
GoghNameOf(slot) ==
    IF slot = "foreground" THEN FOREGROUND_COLOR
    ELSE IF slot = "background" THEN BACKGROUND_COLOR
    ELSE LET n == CHOOSE k \in 1..16 :
                     \/ k <= 8 /\ slot = AnsiNames[k]
                     \/ k > 8 /\ slot = "bright_" \o AnsiNames[k - 8]
         IN  Color_(DigitChars[(n \div 10) + 1], DigitChars[(n % 10) + 1])

\* the colour the last of the exports with that name carries, black without one
LastExported(exports, name) ==
    LET at == {i \in DOMAIN exports : exports[i] # <<>> /\ exports[i][1] = name}
    IN  IF at = {} THEN DefaultColor
        ELSE LET rgb == exports[CHOOSE i \in at : \A j \in at : j <= i][2]
             IN  [red |-> PairValue(rgb, 1), green |-> PairValue(rgb, 3),
                  blue |-> PairValue(rgb, 5)]

GoghExpected(exports) ==
    /\ gResult.ok
    /\ \A slot \in KeySlots :
          gResult.val[slot] = LastExported(exports, GoghNameOf(slot))
    /\ gResult.val.cursor = None /\ gResult.val.cursor_text = None

\* C12: from_gogh succeeds for every text; a slot holds the value of the last
\* line whose export (the first export NAME="#RRGGBB" found in the line) names
\* it, FOREGROUND_COLOR, BACKGROUND_COLOR, COLOR_01..08 for normal and
\* COLOR_09..16 for bright black..white; every other line changes nothing, and
\* a slot no line names is black.
C12_Gogh ==
    (gCall = "from_gogh" /\ gPc = "done") =>
        GoghExpected([i \in DOMAIN LinesOf(gInput) |-> FirstExport(LinesOf(gInput)[i])])

\* a complete script, with comments and other exports between, was parsed
C12_Witness ==
    /\ gCall = "from_gogh" /\ gPc = "done"
    /\ gInput = GoghFixtureText(7, 3)
    /\ gResult.ok
    /\ gResult.val.bright_red = FixtureColor(12, 3)
    /\ gResult.val.white = FixtureColor(10, 3)
    /\ gResult.val.background = FixtureColor(2, 3)

-----------------------------------------------------------------------------
(* Claims about the iTerm parser *)

ItermParsed == iPc \in {"parsed", "rendered"}

HasRootDict == iRoot.ok /\ Len(get_children(iRoot.val, "dict")) > 0

\* the element children of the root dictionary
RootElements == ElementsOf(get_children(iRoot.val, "dict")[1].children)

\* they alternate: a key, its dict, a key, its dict
Alternating ==
    /\ HasRootDict
    /\ Len(RootElements) % 2 = 0
    /\ \A p \in DOMAIN RootElements :
          RootElements[p].name = (IF p % 2 = 1 THEN "key" ELSE "dict")

NumPairs == Len(RootElements) \div 2
KeyAt(i) == RootElements[2 * i - 1]
DictAt(i) == RootElements[2 * i]

HasText(e) == Len(e.children) > 0 /\ e.children[1].kind = "text"

SlotNames == { <<ItermArms[k][1]>> : k \in DOMAIN ItermArms }

Recognized(key) == HasText(key) /\ key.children[1].text \in SlotNames

ColorComponents == {<<"Red Component">>, <<"Green Component">>, <<"Blue Component">>}

SkippedComponents == {<<"Alpha Component">>, <<"Color Space">>}

\* the k-th key/value pair of a dict is one the format describes
SoundComponent(elements, k) ==
    LET key == elements[2 * k - 1]
        value == elements[2 * k]
    IN  /\ HasText(key)
        /\ \/ key.children[1].text \in SkippedComponents
           \/ /\ key.children[1].text \in ColorComponents
              /\ HasText(value)
              /\ parse_f32(value.children[1].text).ok

SoundDict(dict) ==
    LET elements == ElementsOf(dict.children) IN
    \A k \in 1..(Len(elements) \div 2) : SoundComponent(elements, k)

\* the first pair of the dict that is not sound has a component key that is
\* not one of the five
UnknownComponentFirst(dict) ==
    LET elements == ElementsOf(dict.children) IN
    \E k \in 1..(Len(elements) \div 2) :
        /\ \A j \in 1..(k - 1) : SoundComponent(elements, j)
        /\ HasText(elements[2 * k - 1])
        /\ elements[2 * k - 1].children[1].text \notin ColorComponents \cup SkippedComponents

SoundPair(i) == HasText(KeyAt(i)) /\ SoundDict(DictAt(i))

\* C11: a top-level key that is not one of the 20 slot names is ignored and
\* never makes parsing fail, whatever its dict contains, while a component key
\* other than the five inside the dict of a recognized slot makes parsing fail
\* with UnknownColorComponent.
C11_AsStated ==
    (ItermParsed /\ Alternating) =>
        /\ (\A i \in 1..NumPairs :
                HasText(KeyAt(i)) /\ (Recognized(KeyAt(i)) => SoundDict(DictAt(i))))
              => iResult.ok
        /\ \A i \in 1..NumPairs :
              ( /\ \A j \in 1..(i - 1) : SoundPair(j)
                /\ Recognized(KeyAt(i))
                /\ UnknownComponentFirst(DictAt(i)) )
              => iResult = Err("UnknownColorComponent")

\* C15: a node that must carry text and has no text child, or a first child
\* that is no text, makes parsing fail with NotCharacterNode; an element
\* without children never causes a panic.
C15_AsStated ==
    ItermParsed =>
        /\ iResult # Panic
        /\ Alternating =>
              \A i \in 1..NumPairs :
                  ((\A j \in 1..(i - 1) : SoundPair(j)) /\ ~HasText(KeyAt(i)))
                  => iResult = Err("NotCharacterNode")

\* where the key of a slot stands with a dict as the next element
KeyedAt(name) ==
    { p \in 1..(Len(RootElements) - 1) :
        /\ RootElements[p].name = "key"
        /\ HasText(RootElements[p])
        /\ RootElements[p].children[1].text = name
        /\ RootElements[p + 1].name = "dict" }

\* the colour of the dict that follows the last key of that name
OwnColor(name) ==
    LET p == CHOOSE q \in KeyedAt(name) : \A r \in KeyedAt(name) : r <= q
    IN  ComponentLoop(ElementsOf(RootElements[p + 1].children), 1, DefaultColor).val

\* C19: each recognized top-level key is paired with the dict that
\* immediately follows it among the children of the root dictionary, and its
\* slot receives the components of that dict and of no other, also when
\* another key is followed by a value that is no dict or a dict stands
\* without a key in front of it.
C19_AsStated ==
    (ItermParsed /\ HasRootDict /\ iResult.ok) =>
        \A k \in DOMAIN ItermArms :
            LET name == <<ItermArms[k][1]>>
                slot == ItermArms[k][2]
                optional == slot \in {"cursor", "cursor_text"}
            IN  iResult.val[slot] =
                    IF KeyedAt(name) = {}
                    THEN (IF optional THEN None ELSE DefaultColor)
                    ELSE (IF optional THEN Some(OwnColor(name)) ELSE OwnColor(name))

-----------------------------------------------------------------------------
(* Claims about Provider *)

\* the scheme fetches in flight: requests sent and not yet answered
InFlight == Cardinality({i \in DOMAIN futures : futures[i].st = "fetching"})

\* C1: during download_all, the number of scheme-file fetches in flight at
\* the same instant never exceeds 10.
C1_AsStated == InFlight <= BatchLimit

ListedNames ==
    { remote.items[i].name.val :
        i \in {j \in DOMAIN remote.items : remote.items[j].name.some} }

\* the listing filenames that end in the extension and do not begin with '_'
WantedFiles ==
    { f \in ListedNames : ends_with(f, provider.extension) /\ f[1] # "_" }

\* C2: when download_all returns success, the files fetched and written to
\* the cache are exactly the listing filenames that end in the provider's
\* extension and do not begin with '_'.
C2_AsStated ==
    (op = "download_all" /\ pc = "returned" /\ result.ok) =>
        /\ {st.url : st \in log.started} = WantedFiles
        /\ \A f \in WantedFiles :
              \E path \in DOMAIN cache.files : cache.files[path].src = f

HadEntries == DirEntries(provider, log.initial) # {}

\* C3: list performs download_all exactly when the cache holds no entries;
\* when the cache holds an entry, list issues no remote request and leaves
\* every cache entry unchanged.
C3_AsStated ==
    op = "list" =>
        /\ HadEntries =>
              /\ log.downloads = 0
              /\ log.listRequests = 0
              /\ log.started = {}
              /\ cache = log.initial
        /\ (~HadEntries /\ pc # "list") => log.downloads = 1

\* C4: list returns a failure whenever the cache directory cannot be read or
\* a cached file fails to parse; it never returns success in a call during
\* which a cached file failed to parse.  (The directory is taken as it is
\* when list returns, after download_all had its chance to create it.)
C4_AsStated ==
    (op = "list" /\ pc = "returned") =>
        /\ ~cache.dir => ~result.ok
        /\ "parse" \in log.readErrors => ~result.ok

\* C5: if a fetch or a cache write of a batch fails, download_all returns
\* that failure, starts no fetch of a later batch, and does not remove or alter
\* the cache files written by earlier batches of the call.
C5_AsStated ==
    log.failedBatch # 0 =>
        /\ pc = "returned"
        /\ result \in {Err("fetch"), Err("write")}
        /\ \A st \in log.started : st.batch <= log.failedBatch
        /\ \A st \in log.started :
              st.batch < log.failedBatch =>
                  /\ st.path \in DOMAIN cache.files
                  /\ cache.files[st.path] = log.snapshot[st.path]

\* C6: the cache paths of the download_color_scheme calls one download_all
\* starts are distinct for distinct listing filenames: no two of them write
\* the same file.
C6_AsStated ==
    \A s1, s2 \in log.started : s1.file # s2.file => s1.path # s2.path

\* the futures of the batch whose fetch or write has not resolved
Unresolved == {i \in DOMAIN futures : futures[i].st = "fetching"}

\* a step in which the fetches of a new batch start
BatchStarts == log'.batch > log.batch

\* C16: the batches of download_all are strictly sequential: the fetches of a
\* batch start only in a step before which every fetch and write of the batch
\* before has resolved, but for the one whose write this step performs; and
\* once a batch has failed, no fetch starts any more.
C16_Sequential ==
    [][ /\ BatchStarts =>
              /\ Cardinality(Unresolved) <= 1
              /\ \A i \in Unresolved :
                    /\ futures[i].path \in DOMAIN cache'.files
                    /\ cache'.files[futures[i].path] = Body(futures[i].url, TRUE)
              /\ \A st \in log'.started \ log.started : st.batch = log.batch + 1
        /\ log.failedBatch # 0 => log'.started = log.started ]_vars

\* the second batch is in flight, and every file of the first is in the cache
C16_Witness ==
    /\ pc = "join"
    /\ log.batch = 2
    /\ Cardinality(Unresolved) = BatchLimit + 1
    /\ Cardinality({st \in log.started : st.batch = 1}) = BatchLimit + 1
    /\ \A st \in log.started : st.batch = 1 => st.path \in DOMAIN cache.files

ListingUnusable ==
    \/ ~remote.json
    \/ \E i \in DOMAIN remote.items : ~remote.items[i].name.some

\* C7: download_all never aborts the process: when the listing is malformed
\* JSON, or valid JSON whose records lack a string `name`, it returns a failure
\* to its caller.
C7_AsStated ==
    /\ pc # "panicked"
    /\ (pc = "returned" /\ log.listRequests > 0 /\ remote.status = "ok"
            /\ ListingUnusable) => ~result.ok

=============================================================================
